---- MODULE Spec2Model ----
(***************************************************************************)
(* Model of the InventoryManager product API: models.py (the Product row   *)
(* and its stock_alert / to_dict), routes/products.py (the five request    *)
(* handlers) and app.py (the per-request database session).                *)
(*                                                                         *)
(* Numbers.  JSON numbers and Python floats are kept in HALF units, so     *)
(* that 1.5 is representable: Num(3) is 1.5, Num(4) is 2.  Integers such   *)
(* as Product.quantity are kept in whole units.                            *)
(***************************************************************************)
EXTENDS Integers, Sequences, FiniteSets

VARIABLES
    store,      \* the rows of table products (models.py:8-26)
    nextId,     \* the next value of the id sequence (models.py:11)
    now,        \* datetime.utcnow(), as a counter
    req,        \* the request handled last
    resp,       \* the response it got
    deleted,    \* ids deleted with success since the last successful Create
    inflight,   \* SpecConc: per worker, the request between its read and its commit
    alert       \* SpecAlert: the last evaluation of Product.stock_alert

vars == <<store, nextId, now, req, resp, deleted, inflight, alert>>

----------------------------------------------------------------------------
(* Bounds *)

MaxTime == 2            \* POST, PUT and DELETE requests handled
MaxId == 2              \* ids the sequence hands out
MaxUpdateFields == 2    \* keys in the body of one PUT
MaxPage == 3            \* page of a GET /
MaxPerPage == 2         \* per_page of a GET /
QMax == 3               \* largest quantity handed to stock_alert
ThreshMax == 4          \* largest threshold (in half units) in an alert_config
MaxConcTime == 3        \* SpecConc: commits

----------------------------------------------------------------------------
(* JSON values, as request.get_json() and json.loads() return them *)

Num(k) == [t |-> "num", n |-> k, s |-> ""]
Str(x) == [t |-> "str", n |-> 0, s |-> x]
Null == [t |-> "null", n |-> 0, s |-> ""]
List == [t |-> "list", n |-> 0, s |-> ""]
Obj == [t |-> "obj", n |-> 0, s |-> ""]
\* a key that is not in the dict
Absent == [t |-> "absent", n |-> 0, s |-> ""]

\* the JSON value of key alert_config: an object is kept with its two thresholds
CfgObj(l, i) == [t |-> "obj", low |-> l, in |-> i]
CfgOther(k) == [t |-> k, low |-> Absent, in |-> Absent]
AbsentCfg == CfgOther("absent")

Present(v) == v.t # "absent"

\* json.dumps(v): the text that encodes v.  Text that is no JSON has ok = FALSE.
json_dumps(v) == [ok |-> TRUE, v |-> v]
Undecodable == [ok |-> FALSE, v |-> CfgOther("null")]

----------------------------------------------------------------------------
(* Product.stock_alert, models.py:28-47 *)

InStockDefault == 999999

\* int <= x and int >= x raise TypeError unless x is a number
Comparable(v) == v.t = "num"

\* the low-stock comparison made strict
stock_alert_Strict(quantity, alert_config) ==
    IF ~alert_config.ok THEN "Alert Config Error"
    ELSE LET config == alert_config.v IN
         IF config.t # "obj" THEN "Alert Config Error"
         ELSE LET in_stock == IF Present(config.in) THEN config.in
                                                    ELSE Num(2 * InStockDefault)
                  low_stock == IF Present(config.low) THEN config.low ELSE Num(0)
              IN  IF quantity <= 0 THEN "Out of Stock"
                  ELSE IF ~Comparable(low_stock) THEN "Alert Config Error"
                  ELSE IF 2 * quantity < low_stock.n THEN "Low Stock"
                  ELSE IF ~Comparable(in_stock) THEN "Alert Config Error"
                  ELSE IF 2 * quantity >= in_stock.n THEN "In Stock"
                  ELSE "Moderate Stock"

stock_alert(quantity, alert_config) ==
    IF ~alert_config.ok THEN "Alert Config Error"            \* json.loads raises
    ELSE LET config == alert_config.v IN
         IF config.t # "obj" THEN "Alert Config Error"       \* no attribute get
         ELSE LET in_stock == IF Present(config.in) THEN config.in
                                                    ELSE Num(2 * InStockDefault)
                  low_stock == IF Present(config.low) THEN config.low ELSE Num(0)
              IN  IF quantity <= 0 THEN "Out of Stock"
                  ELSE IF ~Comparable(low_stock) THEN "Alert Config Error"
                  ELSE IF 2 * quantity <= low_stock.n THEN "Low Stock"
                  ELSE IF ~Comparable(in_stock) THEN "Alert Config Error"
                  ELSE IF 2 * quantity >= in_stock.n THEN "In Stock"
                  ELSE "Moderate Stock"

----------------------------------------------------------------------------
(* SpecAlert: stock_alert on a Product with any quantity and alert_config *)

Quantities == (0 - 1) .. QMax
Thresholds == {Absent, Str("abc"), Null, List} \cup {Num(k) : k \in (0 - 2) .. ThreshMax}
AlertTexts ==
    {Undecodable}
    \cup {json_dumps(CfgOther(k)) : k \in {"list", "str", "num", "null"}}
    \cup {json_dumps(CfgObj(l, i)) : l \in Thresholds, i \in Thresholds}

NoAlert == [called |-> FALSE, quantity |-> 0, alert_config |-> Undecodable, label |-> ""]

Classify(q, text) ==
    /\ alert' = [called |-> TRUE, quantity |-> q, alert_config |-> text,
                 label |-> stock_alert(q, text)]
    /\ UNCHANGED <<store, nextId, now, req, resp, deleted, inflight>>

----------------------------------------------------------------------------
(* Python's float() and int() on a JSON value (routes/products.py:104-106,  *)
(* 152, 157, 162).  exc is "" or the exception raised.                      *)

Converted(k) == [exc |-> "", val |-> k]
Raised(e) == [exc |-> e, val |-> 0]

\* float("1.5") = 1.5, float("2") = 2.0, float("abc") raises ValueError
float(v) ==
    IF v.t = "num" THEN Converted(v.n)
    ELSE IF v.t = "str" THEN
        IF v.s = "1.5" THEN Converted(3)
        ELSE IF v.s = "2" THEN Converted(4)
        ELSE Raised("ValueError")
    ELSE Raised("TypeError")

\* int(1.5) = 1 (truncation), int("2") = 2, int("1.5") and int("abc") raise ValueError
int(v) ==
    IF v.t = "num" THEN
        Converted(IF v.n >= 0 THEN v.n \div 2 ELSE 0 - ((0 - v.n) \div 2))
    ELSE IF v.t = "str" THEN
        IF v.s = "2" THEN Converted(2) ELSE Raised("ValueError")
    ELSE Raised("TypeError")

----------------------------------------------------------------------------
(* Product rows and responses *)

\* the keys a request body may hold, in the order update_product reads them
NumericKeys == <<"buying_price", "selling_price", "quantity">>
RequiredFields ==
    {"product_index", "name", "buying_price", "selling_price", "quantity", "alert_config"}
BodyKeys == RequiredFields \cup {"description", "supplier_name", "category"}
\* the columns of a row
Columns == BodyKeys \cup {"id", "last_updated"}

KeysOf(data) == {k \in BodyKeys : Present(data[k])}

\* Product.to_dict, models.py:49-63
to_dict(p) ==
    [id |-> p.id, product_index |-> p.product_index, name |-> p.name,
     buying_price |-> p.buying_price, selling_price |-> p.selling_price,
     quantity |-> p.quantity, alert_level |-> stock_alert(p.quantity, p.alert_config),
     alert_config |-> p.alert_config, description |-> p.description,
     supplier_name |-> p.supplier_name, category |-> p.category,
     last_updated |-> p.last_updated]

NoPagination ==
    [total |-> 0, pages |-> 0, current_page |-> 0, per_page |-> 0,
     has_next |-> FALSE, has_prev |-> FALSE]

\* error_response, routes/products.py:9-13.  names: the fields the message lists.
error_response(message, status_code) ==
    [status |-> status_code, message |-> message, names |-> {},
     data |-> <<>>, pagination |-> NoPagination]

success(message, status_code, data) ==
    [status |-> status_code, message |-> message, names |-> {},
     data |-> data, pagination |-> NoPagination]

NoRequest ==
    [op |-> "none", id |-> 0, index |-> "", fields |-> {}, bad |-> "",
     page |-> 0, per_page |-> 0]

\* Product.query.get(id), Product.query.filter_by(product_index=x).first()
query_get(rows, id) == {p \in rows : p.id = id}
query_filter_by_index(rows, index) == {p \in rows : p.product_index = index}

\* the rows in the order the table hands them out (by primary key)
RECURSIVE Ordered(_)
Ordered(rows) ==
    IF rows = {} THEN <<>>
    ELSE LET first == CHOOSE p \in rows : \A q \in rows : p.id <= q.id
         IN  <<first>> \o Ordered(rows \ {first})

----------------------------------------------------------------------------
(* create_new_product, routes/products.py:74-128 *)

NoRow ==
    [product_index |-> "", name |-> "", buying_price |-> 0, selling_price |-> 0,
     quantity |-> 0, alert_config |-> Undecodable, description |-> "",
     supplier_name |-> "", category |-> ""]

Responded(r) == [done |-> TRUE, resp |-> r, row |-> NoRow]
Pending(row) == [done |-> FALSE, resp |-> error_response("", 0), row |-> row]

\* data.get(key, '')
get_or_empty(v) == IF Present(v) THEN v.s ELSE ""

\* the handler without its duplicate check
CreatePrepare_NoDuplicateCheck(rows, data) ==
    LET missing_fields == {f \in RequiredFields : ~Present(data[f])}
        bp == float(data.buying_price)
        sp == float(data.selling_price)
        q == int(data.quantity)
        excs == <<bp.exc, sp.exc, q.exc>>
        raised == {k \in 1..3 : excs[k] # ""}
    IN  IF missing_fields # {} THEN
            Responded([error_response("Missing fields", 400) EXCEPT !.names = missing_fields])
        ELSE IF raised # {} THEN
            LET k == CHOOSE x \in raised : \A y \in raised : x <= y IN
            IF excs[k] = "ValueError"
            THEN Responded(error_response("Invalid data format", 400))
            ELSE Responded(error_response("Unexpected error", 500))
        ELSE Pending([product_index |-> data.product_index.s, name |-> data.name.s,
                      buying_price |-> bp.val, selling_price |-> sp.val,
                      quantity |-> q.val,
                      alert_config |-> json_dumps(data.alert_config),
                      description |-> get_or_empty(data.description),
                      supplier_name |-> get_or_empty(data.supplier_name),
                      category |-> get_or_empty(data.category)])

\* lines 79-111: everything before db.session.add.  json.dumps of a value that
\* request.get_json() returned never raises, so line 94 is not reached.
CreatePrepare(rows, data) ==
    LET missing_fields == {f \in RequiredFields : ~Present(data[f])}
        bp == float(data.buying_price)
        sp == float(data.selling_price)
        q == int(data.quantity)
        excs == <<bp.exc, sp.exc, q.exc>>
        raised == {k \in 1..3 : excs[k] # ""}
    IN  IF missing_fields # {} THEN
            Responded([error_response("Missing fields", 400) EXCEPT !.names = missing_fields])
        ELSE IF query_filter_by_index(rows, data.product_index.s) # {} THEN
            Responded(error_response("Product index already exists", 400))
        ELSE IF raised # {} THEN
            \* the first conversion that raises ends the constructor call
            LET k == CHOOSE x \in raised : \A y \in raised : x <= y IN
            IF excs[k] = "ValueError"
            THEN Responded(error_response("Invalid data format", 400))   \* line 122
            ELSE Responded(error_response("Unexpected error", 500))      \* line 127
        ELSE Pending([product_index |-> data.product_index.s, name |-> data.name.s,
                      buying_price |-> bp.val, selling_price |-> sp.val,
                      quantity |-> q.val,
                      alert_config |-> json_dumps(data.alert_config),
                      description |-> get_or_empty(data.description),
                      supplier_name |-> get_or_empty(data.supplier_name),
                      category |-> get_or_empty(data.category)])

\* unique=True on product_index, models.py:12
UniqueViolation(rows, row) == \E p \in rows : p.product_index = row.product_index

\* the table without its unique constraint
InsertCommit_NoConstraint(rows, row, id, t) ==
    LET new_product ==
            [id |-> id, product_index |-> row.product_index, name |-> row.name,
             buying_price |-> row.buying_price, selling_price |-> row.selling_price,
             quantity |-> row.quantity, alert_config |-> row.alert_config,
             description |-> row.description, supplier_name |-> row.supplier_name,
             category |-> row.category, last_updated |-> t]
    IN  [rows |-> rows \cup {new_product},
         resp |-> success("Product created successfully", 201, <<to_dict(new_product)>>)]

\* lines 113-126: db.session.add, db.session.commit.  The INSERT takes the next id,
\* sets last_updated to its default (models.py:23), and fails on a duplicate
\* product_index with IntegrityError, a SQLAlchemyError: rollback and 500.
InsertCommit(rows, row, id, t) ==
    IF UniqueViolation(rows, row) THEN
        [rows |-> rows, resp |-> error_response("Database error", 500)]
    ELSE
        LET new_product ==
                [id |-> id, product_index |-> row.product_index, name |-> row.name,
                 buying_price |-> row.buying_price, selling_price |-> row.selling_price,
                 quantity |-> row.quantity, alert_config |-> row.alert_config,
                 description |-> row.description, supplier_name |-> row.supplier_name,
                 category |-> row.category, last_updated |-> t]
        IN  [rows |-> rows \cup {new_product},
             resp |-> success("Product created successfully", 201, <<to_dict(new_product)>>)]

\* the first of buying_price, selling_price, quantity in the body whose conversion
\* raises; "" when none does
FirstBad(data) ==
    LET convs == <<float(data.buying_price), float(data.selling_price), int(data.quantity)>>
        failing == {k \in 1..3 : Present(data[NumericKeys[k]]) /\ convs[k].exc # ""}
    IN  IF failing = {} THEN ""
        ELSE NumericKeys[CHOOSE x \in failing : \A y \in failing : x <= y]

CreateRequest(data) ==
    [op |-> "create", id |-> 0, index |-> data.product_index.s, fields |-> KeysOf(data),
     bad |-> FirstBad(data), page |-> 0, per_page |-> 0]

create_new_product(is_json, data) ==
    LET pre == CreatePrepare(store, data) IN
    /\ req.op = "none"
    /\ now < MaxTime
    /\ req' = CreateRequest(data)
    /\ IF ~is_json THEN
            /\ resp' = error_response("Request must be JSON", 400)       \* line 80
            /\ UNCHANGED <<store, nextId, now, deleted>>
       ELSE IF pre.done THEN
            /\ resp' = pre.resp
            /\ UNCHANGED <<store, nextId, now, deleted>>
       ELSE
            /\ nextId <= MaxId
            /\ LET c == InsertCommit(store, pre.row, nextId, now + 1) IN
                /\ store' = c.rows
                /\ resp' = c.resp
                /\ deleted' = IF c.resp.status = 201 THEN {} ELSE deleted
            /\ nextId' = nextId + 1
            /\ now' = now + 1
    /\ UNCHANGED <<inflight, alert>>

----------------------------------------------------------------------------
(* update_product, routes/products.py:133-189 *)

Ok == success("", 200, <<>>)

\* as ApplyFields, with the optional columns reset when the body leaves them out,
\* the way create_new_product defaults them
ApplyFields_Defaulting(product, data) ==
    LET bp == float(data.buying_price)
        sp == float(data.selling_price)
        q == int(data.quantity)
        p1 == IF Present(data.name) THEN [product EXCEPT !.name = data.name.s] ELSE product
        p2 == IF Present(data.buying_price) THEN [p1 EXCEPT !.buying_price = bp.val] ELSE p1
        p3 == IF Present(data.selling_price) THEN [p2 EXCEPT !.selling_price = sp.val] ELSE p2
        p4 == IF Present(data.quantity) THEN [p3 EXCEPT !.quantity = q.val] ELSE p3
        p5 == IF Present(data.alert_config)
              THEN [p4 EXCEPT !.alert_config = json_dumps(data.alert_config)] ELSE p4
        p6 == [p5 EXCEPT !.description = get_or_empty(data.description)]
        p7 == [p6 EXCEPT !.supplier_name = get_or_empty(data.supplier_name)]
        p8 == [p7 EXCEPT !.category = get_or_empty(data.category)]
        Failed(exc, key, sofar) ==
            [resp |-> IF exc = "ValueError"
                      THEN [error_response("Invalid format", 400) EXCEPT !.names = {key}]
                      ELSE error_response("Unexpected error", 500),
             product |-> sofar]
    IN  IF Present(data.buying_price) /\ bp.exc # "" THEN Failed(bp.exc, "buying_price", p1)
        ELSE IF Present(data.selling_price) /\ sp.exc # ""
            THEN Failed(sp.exc, "selling_price", p2)
        ELSE IF Present(data.quantity) /\ q.exc # "" THEN Failed(q.exc, "quantity", p3)
        ELSE [resp |-> Ok, product |-> p8]

\* lines 147-175: the assignments to the session's object, in order.  A ValueError
\* is caught per field (lines 153, 158, 163); a TypeError is not and reaches line
\* 188.  product: the session's object when the handler leaves the block.
\* The message "Invalid <key> format" is kept as "Invalid format" with names = {key}.
ApplyFields(product, data) ==
    LET bp == float(data.buying_price)
        sp == float(data.selling_price)
        q == int(data.quantity)
        p1 == IF Present(data.name) THEN [product EXCEPT !.name = data.name.s] ELSE product
        p2 == IF Present(data.buying_price) THEN [p1 EXCEPT !.buying_price = bp.val] ELSE p1
        p3 == IF Present(data.selling_price) THEN [p2 EXCEPT !.selling_price = sp.val] ELSE p2
        p4 == IF Present(data.quantity) THEN [p3 EXCEPT !.quantity = q.val] ELSE p3
        p5 == IF Present(data.alert_config)
              THEN [p4 EXCEPT !.alert_config = json_dumps(data.alert_config)] ELSE p4
        p6 == IF Present(data.description)
              THEN [p5 EXCEPT !.description = data.description.s] ELSE p5
        p7 == IF Present(data.supplier_name)
              THEN [p6 EXCEPT !.supplier_name = data.supplier_name.s] ELSE p6
        p8 == IF Present(data.category) THEN [p7 EXCEPT !.category = data.category.s] ELSE p7
        Failed(exc, key, sofar) ==
            [resp |-> IF exc = "ValueError"
                      THEN [error_response("Invalid format", 400) EXCEPT !.names = {key}]
                      ELSE error_response("Unexpected error", 500),
             product |-> sofar]
    IN  IF Present(data.buying_price) /\ bp.exc # "" THEN Failed(bp.exc, "buying_price", p1)
        ELSE IF Present(data.selling_price) /\ sp.exc # ""
            THEN Failed(sp.exc, "selling_price", p2)
        ELSE IF Present(data.quantity) /\ q.exc # "" THEN Failed(q.exc, "quantity", p3)
        ELSE [resp |-> Ok, product |-> p8]

\* the columns whose value in the session differs from the value loaded: the
\* columns the flush writes
Changed(loaded, product) == {c \in Columns : product[c] # loaded[c]}

\* lines 177-187: db.session.commit and the response.  The flush emits
\*   UPDATE products SET <changed columns>, last_updated = utcnow() WHERE id = ...
\* only when a column changed: onupdate (models.py:23) belongs to that statement.
\* A row deleted meanwhile makes the UPDATE match nothing (StaleDataError) or
\* the refresh for to_dict find nothing (ObjectDeletedError): rollback and 500.
UpdateCommit(rows, loaded, product, t) ==
    LET changed == Changed(loaded, product)
        current == query_get(rows, loaded.id)
    IN  IF current = {} THEN
            [rows |-> rows, resp |-> error_response("Database error", 500)]
        ELSE IF changed = {} THEN
            LET cur == CHOOSE p \in current : TRUE IN
            [rows |-> rows,
             resp |-> success("Product updated successfully", 200, <<to_dict(cur)>>)]
        ELSE
            LET cur == CHOOSE p \in current : TRUE
                Col(c) == IF c \in changed THEN product[c] ELSE cur[c]
                written ==
                    [id |-> cur.id, product_index |-> Col("product_index"),
                     name |-> Col("name"), buying_price |-> Col("buying_price"),
                     selling_price |-> Col("selling_price"), quantity |-> Col("quantity"),
                     alert_config |-> Col("alert_config"),
                     description |-> Col("description"),
                     supplier_name |-> Col("supplier_name"),
                     category |-> Col("category"), last_updated |-> t]
            IN  [rows |-> (rows \ current) \cup {written},
                 resp |-> success("Product updated successfully", 200, <<to_dict(written)>>)]

UpdateRequest(product_id, data) ==
    [op |-> "update", id |-> product_id, index |-> "", fields |-> KeysOf(data),
     bad |-> FirstBad(data), page |-> 0, per_page |-> 0]

\* The session is the request's own (db.init_app, app.py:13, removes it when the
\* request ends): what an error return leaves in it is never written.
update_product(product_id, is_json, data) ==
    LET found == query_get(store, product_id) IN
    /\ req.op = "none"
    /\ now < MaxTime
    /\ req' = UpdateRequest(product_id, data)
    /\ IF ~is_json THEN
            /\ resp' = error_response("Request must be JSON", 400)       \* line 139
            /\ UNCHANGED <<store, now>>
       ELSE IF found = {} THEN
            /\ resp' = error_response("Product not found", 404)
            /\ UNCHANGED <<store, now>>
       ELSE LET product == CHOOSE p \in found : TRUE
                applied == ApplyFields(product, data)
            IN  IF applied.resp.status # 200 THEN
                    /\ resp' = applied.resp
                    /\ UNCHANGED <<store, now>>
                ELSE
                    /\ LET c == UpdateCommit(store, product, applied.product, now + 1) IN
                        /\ store' = c.rows
                        /\ resp' = c.resp
                    /\ now' = now + 1
    /\ UNCHANGED <<nextId, deleted, inflight, alert>>

----------------------------------------------------------------------------
(* delete_product, routes/products.py:194-214 *)

\* a commit that deletes nothing
DeleteCommit_Nothing(rows, product) ==
    [rows |-> rows, resp |-> success("Product deleted successfully", 200, <<>>)]

\* lines 202-208: DELETE FROM products WHERE id = ...; a row already gone is a
\* warning, not an error
DeleteCommit(rows, product) ==
    [rows |-> {p \in rows : p.id # product.id},
     resp |-> success("Product deleted successfully", 200, <<>>)]

DeleteRequest(product_id) ==
    [op |-> "delete", id |-> product_id, index |-> "", fields |-> {}, bad |-> "",
     page |-> 0, per_page |-> 0]

delete_product(product_id) ==
    LET found == query_get(store, product_id) IN
    /\ req.op = "none"
    /\ now < MaxTime
    /\ req' = DeleteRequest(product_id)
    /\ IF found = {} THEN
            /\ resp' = error_response("Product not found", 404)
            /\ UNCHANGED <<store, now, deleted>>
       ELSE
            /\ LET c == DeleteCommit(store, CHOOSE p \in found : TRUE) IN
                /\ store' = c.rows
                /\ resp' = c.resp
            /\ deleted' = deleted \cup {product_id}
            /\ now' = now + 1
    /\ UNCHANGED <<nextId, inflight, alert>>

----------------------------------------------------------------------------
(* get_single_product, routes/products.py:55-69 *)

get_single_product(product_id) ==
    LET found == query_get(store, product_id) IN
    /\ req.op = "none"
    /\ req' = [op |-> "get", id |-> product_id, index |-> "", fields |-> {}, bad |-> "",
               page |-> 0, per_page |-> 0]
    /\ resp' = IF found = {} THEN error_response("Product not found", 404)
               ELSE success("", 200, <<to_dict(CHOOSE p \in found : TRUE)>>)
    /\ UNCHANGED <<store, nextId, now, deleted, inflight, alert>>

----------------------------------------------------------------------------
(* get_all_products, routes/products.py:18-50 *)

Min(a, b) == IF a <= b THEN a ELSE b

\* pages rounded down
paginate_Floor(rows, page, per_page) ==
    LET all == Ordered(rows)
        total == Len(all)
        offset == (page - 1) * per_page
        pages == total \div per_page
    IN  [items |-> SubSeq(all, offset + 1, Min(offset + per_page, total)),
         total |-> total, pages |-> pages,
         has_next |-> page < pages, has_prev |-> page > 1]

\* Product.query.paginate(page, per_page, error_out=False), lines 27-31, for
\* page >= 1 and per_page >= 1: LIMIT per_page OFFSET (page - 1) * per_page, a
\* count, and pages = ceil(total / per_page)
paginate(rows, page, per_page) ==
    LET all == Ordered(rows)
        total == Len(all)
        offset == (page - 1) * per_page
        pages == IF total % per_page = 0 THEN total \div per_page
                 ELSE total \div per_page + 1
    IN  [items |-> SubSeq(all, offset + 1, Min(offset + per_page, total)),
         total |-> total, pages |-> pages,
         has_next |-> page < pages, has_prev |-> page > 1]

get_all_products(page, per_page) ==
    LET products == paginate(store, page, per_page) IN
    /\ req.op = "none"
    /\ req' = [op |-> "list", id |-> 0, index |-> "", fields |-> {}, bad |-> "",
               page |-> page, per_page |-> per_page]
    /\ resp' = [status |-> 200, message |-> "", names |-> {},
                data |-> [k \in 1..Len(products.items) |-> to_dict(products.items[k])],
                pagination |->
                    [total |-> products.total, pages |-> products.pages,
                     current_page |-> page, per_page |-> per_page,
                     has_next |-> products.has_next, has_prev |-> products.has_prev]]
    /\ UNCHANGED <<store, nextId, now, deleted, inflight, alert>>

----------------------------------------------------------------------------
(* Requests *)

Ids == 1..MaxId

CreateNumbers == {Num(3), Str("abc"), Null, List, Obj}
UpdateNumbers == {Num(3), Str("2"), Str("abc"), Null}
ValidConfig == CfgObj(Num(2), Num(4))
ConfigInputs == {ValidConfig, CfgOther("list")}
\* description, supplier_name, category: all left out, or all given
OptionalInputs == {<<Absent, Absent, Absent>>, <<Str("d"), Str("d"), Str("d")>>}

Body(idx, nm, bp, sp, q, cfg, d, sn, cat) ==
    [product_index |-> idx, name |-> nm, buying_price |-> bp, selling_price |-> sp,
     quantity |-> q, alert_config |-> cfg, description |-> d, supplier_name |-> sn,
     category |-> cat]

\* bodies with every required field
FullBodies ==
    {Body(idx, Str("A"), bp, sp, q, ValidConfig, opt[1], opt[2], opt[3]) :
        idx \in {Str("P1"), Str("P2")}, bp \in CreateNumbers, sp \in CreateNumbers,
        q \in CreateNumbers, opt \in OptionalInputs}

Without(data, keys) ==
    [k \in BodyKeys |->
        IF k \notin keys THEN data[k]
        ELSE IF k = "alert_config" THEN AbsentCfg ELSE Absent]

\* bodies that lack required fields
LackingBodies ==
    {Without(Body(Str("P1"), Str("A"), Num(3), Num(3), Num(3), ValidConfig,
                  Absent, Absent, Absent), keys) :
        keys \in SUBSET RequiredFields \ {{}}}

CreateBodies == FullBodies \cup LackingBodies

\* a request whose body is not JSON: no key is read from it
NoBody == Body(Absent, Absent, Absent, Absent, Absent, AbsentCfg, Absent, Absent, Absent)

UpdateBodies ==
    {data \in
        [product_index : {Absent, Str("P2")},
         name : {Absent, Str("A"), Str("B")},
         buying_price : UpdateNumbers \cup {Absent},
         selling_price : UpdateNumbers \cup {Absent},
         quantity : UpdateNumbers \cup {Absent},
         alert_config : ConfigInputs \cup {AbsentCfg},
         description : {Absent, Str("d")},
         supplier_name : {Absent, Str("d")},
         category : {Absent, Str("d")}] :
        Cardinality(KeysOf(data)) <= MaxUpdateFields}

----------------------------------------------------------------------------
(* Spec: the handlers, one request at a time *)

Workers == {1, 2}
Idle == [op |-> "idle"]

Init ==
    /\ store = {}
    /\ nextId = 1
    /\ now = 0
    /\ req = NoRequest
    /\ resp = error_response("", 0)
    /\ deleted = {}
    /\ inflight = [w \in Workers |-> Idle]
    /\ alert = NoAlert

\* The response is sent and the request ends: Flask-SQLAlchemy (db.init_app,
\* app.py:13) removes the request's session, and the next request is taken.
teardown ==
    /\ req.op # "none"
    /\ req' = NoRequest
    /\ resp' = error_response("", 0)
    /\ UNCHANGED <<store, nextId, now, deleted, inflight, alert>>

\* a POST, PUT or DELETE request can be taken
Writable == req.op = "none" /\ now < MaxTime

Next ==
    \/ teardown
    \/ Writable /\ \E data \in CreateBodies : create_new_product(TRUE, data)
    \/ Writable /\ create_new_product(FALSE, NoBody)
    \/ Writable /\ \E id \in Ids, data \in UpdateBodies : update_product(id, TRUE, data)
    \/ Writable /\ \E id \in Ids : update_product(id, FALSE, NoBody)
    \/ Writable /\ \E id \in Ids : delete_product(id)
    \/ \E id \in Ids : get_single_product(id)
    \/ \E page \in 1..MaxPage, per_page \in 1..MaxPerPage : get_all_products(page, per_page)

Spec == Init /\ [][Next]_vars

(* SpecAlert: stock_alert as a function of the row's quantity and alert_config *)

NextAlert == \E q \in Quantities, text \in AlertTexts : Classify(q, text)

SpecAlert == Init /\ [][NextAlert]_vars

----------------------------------------------------------------------------
(* SpecConc: two workers; a request's reads and its commit are separate steps *)

ConcCreateBodies ==
    {Body(idx, Str("A"), bp, Num(3), Num(3), ValidConfig, Absent, Absent, Absent) :
        idx \in {Str("P1"), Str("P2")}, bp \in {Num(3), Null}}

ConcUpdateBodies ==
    {Body(Absent, nm, Absent, Absent, q, AbsentCfg, Absent, Absent, Absent) :
        nm \in {Absent, Str("B")}, q \in {Absent, Str("2")}}

ConcWritable(w) == inflight[w].op = "idle" /\ now < MaxConcTime

\* lines 77-111 of create_new_product: an error response, or the row handed to
\* db.session.add
BeginCreate(w, data) ==
    LET pre == CreatePrepare(store, data) IN
    /\ ConcWritable(w)
    /\ IF pre.done THEN
            /\ req' = CreateRequest(data)
            /\ resp' = pre.resp
            /\ UNCHANGED inflight
       ELSE
            /\ inflight' = [inflight EXCEPT ![w] = [op |-> "create", data |-> data,
                                                    row |-> pre.row]]
            /\ UNCHANGED <<req, resp>>
    /\ UNCHANGED <<store, nextId, now, deleted, alert>>

\* lines 113-126 of create_new_product
CommitCreate(w) ==
    /\ inflight[w].op = "create"
    /\ nextId <= MaxId
    /\ LET c == InsertCommit(store, inflight[w].row, nextId, now + 1) IN
        /\ store' = c.rows
        /\ resp' = c.resp
        /\ deleted' = IF c.resp.status = 201 THEN {} ELSE deleted
    /\ req' = CreateRequest(inflight[w].data)
    /\ nextId' = nextId + 1
    /\ now' = now + 1
    /\ inflight' = [inflight EXCEPT ![w] = Idle]
    /\ UNCHANGED alert

\* lines 136-175 of update_product
BeginUpdate(w, product_id, data) ==
    LET found == query_get(store, product_id) IN
    /\ ConcWritable(w)
    /\ IF found = {} THEN
            /\ req' = UpdateRequest(product_id, data)
            /\ resp' = error_response("Product not found", 404)
            /\ UNCHANGED inflight
       ELSE LET product == CHOOSE p \in found : TRUE
                applied == ApplyFields(product, data)
            IN  IF applied.resp.status # 200 THEN
                    /\ req' = UpdateRequest(product_id, data)
                    /\ resp' = applied.resp
                    /\ UNCHANGED inflight
                ELSE
                    /\ inflight' = [inflight EXCEPT ![w] =
                            [op |-> "update", data |-> data, loaded |-> product,
                             product |-> applied.product]]
                    /\ UNCHANGED <<req, resp>>
    /\ UNCHANGED <<store, nextId, now, deleted, alert>>

\* lines 177-187 of update_product
CommitUpdate(w) ==
    /\ inflight[w].op = "update"
    /\ LET c == UpdateCommit(store, inflight[w].loaded, inflight[w].product, now + 1) IN
        /\ store' = c.rows
        /\ resp' = c.resp
    /\ req' = UpdateRequest(inflight[w].loaded.id, inflight[w].data)
    /\ now' = now + 1
    /\ inflight' = [inflight EXCEPT ![w] = Idle]
    /\ UNCHANGED <<nextId, deleted, alert>>

\* lines 197-200 of delete_product
BeginDelete(w, product_id) ==
    LET found == query_get(store, product_id) IN
    /\ ConcWritable(w)
    /\ IF found = {} THEN
            /\ req' = DeleteRequest(product_id)
            /\ resp' = error_response("Product not found", 404)
            /\ UNCHANGED inflight
       ELSE
            /\ inflight' = [inflight EXCEPT ![w] =
                    [op |-> "delete", product |-> CHOOSE p \in found : TRUE]]
            /\ UNCHANGED <<req, resp>>
    /\ UNCHANGED <<store, nextId, now, deleted, alert>>

\* lines 202-212 of delete_product
CommitDelete(w) ==
    /\ inflight[w].op = "delete"
    /\ LET c == DeleteCommit(store, inflight[w].product) IN
        /\ store' = c.rows
        /\ resp' = c.resp
    /\ req' = DeleteRequest(inflight[w].product.id)
    /\ deleted' = deleted \cup {inflight[w].product.id}
    /\ now' = now + 1
    /\ inflight' = [inflight EXCEPT ![w] = Idle]
    /\ UNCHANGED <<nextId, alert>>

NextConc ==
    \E w \in Workers :
        \/ \E data \in ConcCreateBodies : BeginCreate(w, data)
        \/ CommitCreate(w)
        \/ \E id \in Ids, data \in ConcUpdateBodies : BeginUpdate(w, id, data)
        \/ CommitUpdate(w)
        \/ \E id \in Ids : BeginDelete(w, id)
        \/ CommitDelete(w)

SpecConc == Init /\ [][NextConc]_vars

----------------------------------------------------------------------------
(* Claims on stock_alert, under SpecAlert *)

\* alert_config decodes to an object with numeric low_stock and in_stock
ValidThresholds(text) ==
    /\ text.ok
    /\ text.v.t = "obj"
    /\ text.v.low.t = "num"
    /\ text.v.in.t = "num"

\* the label the claim gives for quantity q and thresholds l, i (in half units)
ClaimedLabels(q, l, i, label) ==
    /\ label = "Out of Stock" <=> q <= 0
    /\ label = "Low Stock" <=> (0 < q /\ 2 * q <= l)
    /\ label = "In Stock" <=> 2 * q >= i
    /\ label = "Moderate Stock" <=> (l < 2 * q /\ 2 * q < i)
    /\ label \in {"Out of Stock", "Low Stock", "In Stock", "Moderate Stock"}

\* C1, as stated: for every integer quantity q and every alert_config with numeric
\* low_stock = l < in_stock = i, stock_alert is "Out of Stock" iff q <= 0, "Low
\* Stock" iff 0 < q <= l, "In Stock" iff q >= i, "Moderate Stock" iff l < q < i.
C1_AsStated ==
    (alert.called /\ ValidThresholds(alert.alert_config)
        /\ alert.alert_config.v.low.n < alert.alert_config.v.in.n)
    => ClaimedLabels(alert.quantity, alert.alert_config.v.low.n,
                     alert.alert_config.v.in.n, alert.label)

\* C1, amended: the same for thresholds 0 <= l < i.  With l < 0 the quantity 0 is
\* "Out of Stock" (the first test made), where the claim has "In Stock" (i <= 0)
\* or "Moderate Stock" (i > 0).
C1_LabelsForNonNegativeThresholds ==
    (alert.called /\ ValidThresholds(alert.alert_config)
        /\ alert.alert_config.v.low.n < alert.alert_config.v.in.n
        /\ alert.alert_config.v.low.n >= 0)
    => ClaimedLabels(alert.quantity, alert.alert_config.v.low.n,
                     alert.alert_config.v.in.n, alert.label)

C1_Witness ==
    /\ alert.called
    /\ ValidThresholds(alert.alert_config)
    /\ alert.alert_config.v.low.n < alert.alert_config.v.in.n
    /\ alert.alert_config.v.low.n > 0
    /\ alert.label = "Moderate Stock"

\* text that does not decode, decodes to no object, or decodes to an object whose
\* low_stock or in_stock is there and is no number
Malformed(text) ==
    \/ ~text.ok
    \/ text.v.t # "obj"
    \/ Present(text.v.low) /\ text.v.low.t # "num"
    \/ Present(text.v.in) /\ text.v.in.t # "num"

\* C2: for every quantity, q <= 0 included, and every malformed alert_config,
\* stock_alert returns "Alert Config Error".
C2_MalformedIsError ==
    (alert.called /\ Malformed(alert.alert_config)) => alert.label = "Alert Config Error"

----------------------------------------------------------------------------
(* Claims on the store under concurrent requests, under SpecConc *)

\* C3: in every reachable state, whatever the interleaving of the reads and the
\* commits of concurrent Create, Update and Delete requests, no two stored
\* products have the same product_index.
C3_UniqueProductIndex ==
    \A p \in store, q \in store : p # q => p.product_index # q.product_index

\* two requests with the same product_index both passed the duplicate check, and the
\* second commit was refused
C3_Witness ==
    /\ req.op = "create"
    /\ resp.status = 500
    /\ resp.message = "Database error"
    /\ \E p \in store : p.product_index = req.index

----------------------------------------------------------------------------
(* Claims on the handlers, under Spec *)

Target(rows, r) == {p \in rows : p.id = r.id}
Taken(op) == req.op = "none" /\ req'.op = op

\* C4: a Create with every required field and a product_index that a stored
\* product has is answered 400 "Product index already exists", and the stored
\* products are what they were.
C4_DuplicateCreateRejected ==
    [][(Taken("create") /\ RequiredFields \subseteq req'.fields
            /\ \E p \in store : p.product_index = req'.index)
        => (/\ resp'.status = 400
            /\ resp'.message = "Product index already exists"
            /\ store' = store)]_vars

C4_Witness ==
    /\ req.op = "create"
    /\ RequiredFields \subseteq req.fields
    /\ req.bad = ""
    /\ resp.status = 400
    /\ resp.message = "Product index already exists"
    /\ Cardinality({p \in store : p.product_index = req.index}) = 1

\* C5: a Create with every required field, a fresh product_index and a
\* buying_price, selling_price or quantity that cannot be converted is answered
\* 400, never 500, and no product is stored.
C5_BadNumberIs400 ==
    [][(Taken("create") /\ RequiredFields \subseteq req'.fields
            /\ (\A p \in store : p.product_index # req'.index)
            /\ req'.bad # "")
        => (resp'.status = 400 /\ store' = store)]_vars

C7_LastUpdatedRefreshed ==
    [][/\ (Taken("update") /\ resp'.status = 200)
            => \A q \in Target(store', req') : q.last_updated = now'
       /\ (Taken("create") /\ resp'.status = 201)
            => \A q \in store' \ store : q.last_updated = now'
       /\ \A p \in store : \A q \in store' : q.id = p.id => q.last_updated >= p.last_updated
      ]_vars

\* C8: an Update of a stored product in which buying_price, selling_price or
\* quantity cannot be converted is answered 400 with a message that names that
\* field, and the stored products are what they were.
C8_BadFieldNamedNothingWritten ==
    [][(Taken("update") /\ Target(store, req') # {} /\ req'.bad # "")
        => (/\ resp'.status = 400
            /\ resp'.names = {req'.bad}
            /\ store' = store)]_vars

CeilDiv(a, b) == (a + b - 1) \div b
Max(a, b) == IF a >= b THEN a ELSE b

\* C9: with N stored products, page >= 1 and per_page >= 1, List answers 200 with
\* total = N, pages = ceiling(N / per_page), current_page = page, has_prev =
\* (page > 1), has_next = (page < pages) and min(per_page, max(0, N - (page - 1)
\* * per_page)) records; a page past the last gets an empty slice.
C9_Pagination ==
    req.op = "list" =>
        LET N == Cardinality(store)
            pg == resp.pagination
        IN  /\ resp.status = 200
            /\ pg.total = N
            /\ pg.pages = CeilDiv(N, req.per_page)
            /\ pg.current_page = req.page
            /\ pg.per_page = req.per_page
            /\ pg.has_prev = (req.page > 1)
            /\ pg.has_next = (req.page < pg.pages)
            /\ Len(resp.data) = Min(req.per_page, Max(0, N - (req.page - 1) * req.per_page))
            /\ \A k \in 1..Len(resp.data) : \E p \in store : resp.data[k].id = p.id

\* page 2 of 2, one product a page
C9_Witness ==
    /\ req.op = "list"
    /\ Cardinality(store) = 2
    /\ req.per_page = 1
    /\ req.page = 2
    /\ resp.pagination.pages = 2
    /\ resp.pagination.has_prev
    /\ ~resp.pagination.has_next
    /\ Len(resp.data) = 1

====
